---- MODULE Spec2Model ----
(***************************************************************************)
(* Model of dashboard.py: the inquiry-sheet deduplication inside           *)
(* get_inquiry_tracker_data, the year-over-year pace lookup                 *)
(* calculate_booking_pace, and the funnel metrics calculate_lead_metrics.   *)
(* The three parts never share state in the program (each is recomputed    *)
(* from its own sheet), so each has a specification of its own over the     *)
(* same variables; the variables of the other parts stay at their idle     *)
(* value.                                                                   *)
(***************************************************************************)
EXTENDS Integers, Sequences, FiniteSets, TLC

VARIABLES pc,        \* position of the run
          headers,   \* all_values[0] of the inquiry sheet: the header row
          unique_headers, \* the column names made from the header row
          columns,   \* header of the inquiry sheet (column names present)
          sheet,     \* all_values[1:] of the inquiry sheet, in sheet order
          df,        \* rows (sheet indices) of the frame get_inquiry_tracker_data returns
          dedupPre,  \* the _dedup_pre column
          dedupPost, \* the _dedup_post column
          df2,       \* rows left when the deduplication is run on its own output
          yoy,       \* the Year Comparison frame handed to calculate_booking_pace
          today,     \* datetime.now() of the pace lookup, as a day of the year
          pace,
          chart,     \* the series create_booking_pace_chart_ytd plots, or None
          days,      \* the days argument of create_booking_pace_chart
          daily,     \* the series create_booking_pace_chart plots, or None      \* what calculate_booking_pace returned
          records,   \* the frame handed to calculate_lead_metrics
          metrics    \* what calculate_lead_metrics returned

vars == <<pc, headers, unique_headers, columns, sheet, df, dedupPre, dedupPost, df2, yoy, today, pace, chart, days, daily, records, metrics>>

dedupVars == <<headers, unique_headers, columns, sheet, df, dedupPre, dedupPost, df2>>
paceVars == <<yoy, today, pace, chart, days, daily>>
leadVars == <<records, metrics>>

Max(a, b) == IF a > b THEN a ELSE b

Range(s) == {s[i] : i \in 1..Len(s)}

(***************************************************************************)
(* Part 1: get_inquiry_tracker_data, deduplication by (Event Date, Venue)  *)
(***************************************************************************)

\* Largest number of data rows of the inquiry sheet.
MaxRows == 3
\* Parsable timestamps are 1..MaxTs.
MaxTs == 3

\* pd.to_datetime(..., errors="coerce") gives NaT for a text that is no timestamp.
NaT == 0

AllColumns == {"Timestamp", "Event Date", "Venue (if known)", "Resolution"}

\* The headers the sheet is tried with: complete, and one column missing.
Headers == {AllColumns} \cup {AllColumns \ {c} : c \in AllColumns}

\* Texts of the Resolution column.
ResolutionTexts == {"Booked", " BOOKED ", "Canceled", "Cold"}

\* (Event Date, Venue) texts of a row.
EventKeys == {<<"5/1/26", "Oak Hall">>, <<"5/1/26", "Elm Barn">>}

\* A column that is not in the header has no cell: the field holds this.
NoCell == ""

\* The rows a sheet with header h can hold.
RowsOf(h) ==
    {[ts    |-> t,
      date  |-> IF "Event Date" \in h THEN k[1] ELSE NoCell,
      venue |-> IF "Venue (if known)" \in h THEN k[2] ELSE NoCell,
      res   |-> r] :
        t \in (IF "Timestamp" \in h THEN 0..MaxTs ELSE {NaT}),
        k \in EventKeys,
        r \in (IF "Resolution" \in h THEN ResolutionTexts ELSE {NoCell})}

\* str.lower().str.strip() on the texts of the Resolution column.
LowerStrip(s) ==
    CASE s = "Booked"   -> "booked"
      [] s = " BOOKED " -> "booked"
      [] s = "Canceled" -> "canceled"
      [] s = "Cold"     -> "cold"
      [] OTHER          -> s

\* df["_parsed_timestamp"] of sheet row i.
ParsedTimestamp(i) == sheet[i].ts

\* The grouping key of sheet row i.
GroupKey(i) == <<sheet[i].date, sheet[i].venue>>

\* Mutant of SortValuesDesc: ascending=False left out (oldest first).
SortValuesAscending(ids) ==
    LET n == Cardinality(ids)
    IN {s \in [1..n -> ids] :
          /\ \A i, j \in 1..n : i # j => s[i] # s[j]
          /\ \A i \in 1..n - 1 : sheet[s[i]].ts <= sheet[s[i + 1]].ts}

\* Mutant of SortValuesDesc: the rows without a timestamp come first.
SortValuesNaTFirst(ids) ==
    LET n == Cardinality(ids)
        key(i) == IF ParsedTimestamp(i) = NaT THEN MaxTs + 1 ELSE ParsedTimestamp(i)
    IN {s \in [1..n -> ids] :
          /\ \A i, j \in 1..n : i # j => s[i] # s[j]
          /\ \A i \in 1..n - 1 : key(s[i]) >= key(s[i + 1])}

\* sort_values("_parsed_timestamp", ascending=False): every order of the rows
\* ids that is newest first with NaT last; rows of equal timestamp come in
\* any order (the default sort kind is not stable).
SortValuesDesc(ids) ==
    LET n == Cardinality(ids)
    IN {s \in [1..n -> ids] :
          /\ \A i, j \in 1..n : i # j => s[i] # s[j]
          /\ \A i \in 1..n - 1 : ParsedTimestamp(s[i]) >= ParsedTimestamp(s[i + 1])}

\* booked_rows["_parsed_timestamp"].min(): NaT is skipped, NaT when nothing is left.
MinTimestamp(ids) ==
    LET parsed == {ParsedTimestamp(i) : i \in ids} \ {NaT}
    IN IF parsed = {} THEN NaT
       ELSE CHOOSE t \in parsed : \A u \in parsed : t <= u

IsBookedRow(i) == LowerStrip(sheet[i].res) = "booked"
IsCanceledRow(i) == LowerStrip(sheet[i].res) = "canceled"

\* Mutant of ValidCancellations: >= in place of >.
ValidCancellationsNotEarlier(canceled, earliest_booking_ts) ==
    Cardinality({j \in 1..Len(canceled) :
        /\ ParsedTimestamp(canceled[j]) # NaT
        /\ earliest_booking_ts # NaT
        /\ ParsedTimestamp(canceled[j]) >= earliest_booking_ts})

\* The loop over canceled_rows.
ValidCancellations(canceled, earliest_booking_ts) ==
    Cardinality({j \in 1..Len(canceled) :
        /\ ParsedTimestamp(canceled[j]) # NaT
        /\ earliest_booking_ts # NaT
        /\ ParsedTimestamp(canceled[j]) > earliest_booking_ts})

\* group.head(n) as the set of its rows.
HeadRows(s, n) == {s[i] : i \in 1..(IF n < Len(s) THEN n ELSE Len(s))}

\* Mutant of NoNetBookings: the newest row of the group whatever its Resolution.
NoNetBookingsNewestRow(group, canceled_rows) == HeadRows(group, 1)

\* Mutant of NoNetBookings: a group whose bookings are all canceled keeps no row.
NoNetBookingsNoRow(group, canceled_rows) == {}

\* net_bookings == 0: canceled_rows.head(1) if there is a Canceled row, else group.head(1).
NoNetBookings(group, canceled_rows) ==
    IF Len(canceled_rows) > 0 THEN HeadRows(canceled_rows, 1) ELSE HeadRows(group, 1)

\* Mutant of NewestBooked: group.head(net_bookings) in place of booked_rows.head.
NewestOfGroup(group, booked, net_bookings) == {HeadRows(group, net_bookings)}

\* Mutant of NewestBooked: booked_rows.tail(net_bookings).
OldestBooked(group, booked, net_bookings) ==
    {{booked_rows[i] : i \in (Len(booked_rows) - net_bookings + 1)..Len(booked_rows)} :
        booked_rows \in SortValuesDesc(Range(booked))}

\* booked_rows.head(net_bookings), booked_rows being the Booked rows of the
\* group sorted newest first once more (free on equal timestamps).
NewestBooked(group, booked, net_bookings) ==
    {HeadRows(booked_rows, net_bookings) : booked_rows \in SortValuesDesc(Range(booked))}

\* max(0, len(booked_rows) - valid_cancellations)
NetBookings(booked, valid_cancellations) == Max(0, Len(booked) - valid_cancellations)

\* smart_dedup(group): group is the rows of one key in the order of the sorted
\* frame. The result is every set of rows the call can return.
smart_dedup(group) ==
    IF Len(group) = 1 THEN {Range(group)}
    ELSE IF "Resolution" \notin columns THEN {HeadRows(group, 1)}
    ELSE LET booked == SelectSeq(group, IsBookedRow)
             canceled_rows == SelectSeq(group, IsCanceledRow)
         IN IF Len(booked) = 0 THEN {HeadRows(group, 1)}
            ELSE LET earliest_booking_ts == MinTimestamp(Range(booked))
                     valid_cancellations ==
                         ValidCancellations(canceled_rows, earliest_booking_ts)
                     net_bookings == NetBookings(booked, valid_cancellations)
                 IN IF net_bookings = 0
                    THEN {NoNetBookings(group, canceled_rows)}
                    ELSE NewestBooked(group, booked, net_bookings)

\* The rows of key k in the order of the sorted frame.
GroupOf(sorted, k) == SelectSeq(sorted, LAMBDA i : GroupKey(i) = k)

\* df.groupby(["Event Date", "Venue (if known)"], group_keys=False).apply(smart_dedup)
\* on the sorted frame: every set of rows it can return.
GroupByApply(sorted) ==
    {out \in SUBSET Range(sorted) :
        \A k \in {GroupKey(i) : i \in Range(sorted)} :
            {i \in out : GroupKey(i) = k} \in smart_dedup(GroupOf(sorted, k))}

\* The deduplication block, run on the rows ids of the sheet.
Deduplicate(ids) ==
    IF {"Timestamp", "Event Date", "Venue (if known)"} \subseteq columns
    THEN UNION {GroupByApply(sorted) : sorted \in SortValuesDesc(ids)}
    ELSE {ids}

IdleDedup ==
    /\ headers = <<>>
    /\ unique_headers = <<>>
    /\ columns = {}
    /\ sheet = <<>>
    /\ df = {}
    /\ dedupPre = 0
    /\ dedupPost = 0
    /\ df2 = {}

IdlePace ==
    /\ yoy = <<>>
    /\ today = 0
    /\ pace = <<>>
    /\ chart = <<>>
    /\ days = 0
    /\ daily = <<>>

IdleLead ==
    /\ records = <<>>
    /\ metrics = <<>>

InitDedup ==
    /\ pc = "sheet"
    /\ headers = <<>>
    /\ unique_headers = <<>>
    /\ columns \in Headers
    /\ \E n \in 0..MaxRows : sheet \in [1..n -> RowsOf(columns)]
    /\ df = {}
    /\ dedupPre = 0
    /\ dedupPost = 0
    /\ df2 = {}
    /\ IdlePace
    /\ IdleLead

\* get_inquiry_tracker_data() on the sheet.
get_inquiry_tracker_data ==
    /\ pc = "sheet"
    /\ \E out \in Deduplicate(DOMAIN sheet) :
          /\ df' = out
          /\ dedupPost' = Cardinality(out)
    /\ dedupPre' = Len(sheet)
    /\ pc' = "deduped"
    /\ UNCHANGED <<headers, unique_headers, columns, sheet, df2, paceVars, leadVars>>

\* The deduplication run again on the frame it returned.
DeduplicateAgain ==
    /\ pc = "deduped"
    /\ df2' \in Deduplicate(df)
    /\ pc' = "again"
    /\ UNCHANGED <<headers, unique_headers, columns, sheet, df, dedupPre, dedupPost, paceVars, leadVars>>

NextDedup == get_inquiry_tracker_data \/ DeduplicateAgain

SpecDedup == InitDedup /\ [][NextDedup]_vars

(***************************************************************************)
(* The header row of get_inquiry_tracker_data. A text is the sequence of   *)
(* its parts between underscores: "A" is <<"A">>, "A_1" is <<"A", "1">>,   *)
(* the empty text is <<>>; so f"{base}_{count}" appends a part to base.    *)
(***************************************************************************)

\* Largest number of cells of the header row.
MaxHeaders == 3

\* Texts of the header cells: "", "A", "A_1", "B", "Column_1".
HeaderTexts == {<<>>, <<"A">>, <<"A", "1">>, <<"B">>, <<"Column", "1">>}

\* str(n) of a small number.
Digits(n) ==
    CASE n = 0 -> "0"
      [] n = 1 -> "1"
      [] n = 2 -> "2"
      [] n = 3 -> "3"
      [] n = 4 -> "4"

\* f"{base}_{count}"
Suffixed(base, count) == Append(base, Digits(count))

\* base = h if h else f'Column_{i}', i the 0-based position.
BaseOf(h, i) == IF h = <<>> THEN <<"Column", Digits(i)>> ELSE h

\* seen.get(base, 0)
SeenCount(seen, base) == IF base \in DOMAIN seen THEN seen[base] ELSE 0

\* seen[base] = count
SeenWith(seen, base, count) ==
    [k \in DOMAIN seen \cup {base} |-> IF k = base THEN count ELSE seen[k]]

\* The name appended to unique_headers for the cell h at 0-based position i.
UniqueName(seen, h, i) ==
    IF h = <<>> \/ h \in DOMAIN seen
    THEN LET base == BaseOf(h, i)
             count == SeenCount(seen, base)
         IN IF count > 0 THEN Suffixed(base, count) ELSE base
    ELSE h

\* seen after the cell h at 0-based position i.
SeenAfter(seen, h, i) ==
    IF h = <<>> \/ h \in DOMAIN seen
    THEN SeenWith(seen, BaseOf(h, i), SeenCount(seen, BaseOf(h, i)) + 1)
    ELSE SeenWith(seen, h, 1)

\* The loop over enumerate(headers) from the 1-based position k on.
RECURSIVE UniqueHeaders(_, _, _, _)
UniqueHeaders(cells, k, seen, out) ==
    IF k > Len(cells) THEN out
    ELSE UniqueHeaders(cells, k + 1, SeenAfter(seen, cells[k], k - 1),
                       Append(out, UniqueName(seen, cells[k], k - 1)))

InitHeaders ==
    /\ pc = "header"
    /\ \E n \in 0..MaxHeaders : headers \in [1..n -> HeaderTexts]
    /\ unique_headers = <<>>
    /\ columns = {}
    /\ sheet = <<>>
    /\ df = {}
    /\ dedupPre = 0
    /\ dedupPost = 0
    /\ df2 = {}
    /\ IdlePace
    /\ IdleLead

\* The header part of get_inquiry_tracker_data().
MakeHeadersUnique ==
    /\ pc = "header"
    /\ unique_headers' = UniqueHeaders(headers, 1, <<>>, <<>>)
    /\ pc' = "named"
    /\ UNCHANGED <<headers, columns, sheet, df, dedupPre, dedupPost, df2, paceVars, leadVars>>

NextHeaders == MakeHeadersUnique

SpecHeaders == InitHeaders /\ [][NextHeaders]_vars

(***************************************************************************)
(* Part 2: calculate_booking_pace on the Year Comparison frame             *)
(*                                                                         *)
(* get_year_comparison_data builds the frame from get_all_values(), so     *)
(* every cell and every column name is a text. The columns are named here  *)
(* relative to today: "current" is the column whose name is                *)
(* str(today.year), "last" the one named str(today.year - 1). today is a   *)
(* day of the current year, Jan 1 being day 1.                             *)
(***************************************************************************)

\* Largest number of data rows of the Year Comparison frame.
MaxPaceRows == 3
\* today ranges over Jan 1 .. Jan MaxToday.
MaxToday == 3

PaceColumns == {"Day", "current", "last"}

\* The headers the frame is tried with: complete, and one column missing.
PaceHeaders == {PaceColumns} \cup {PaceColumns \ {c} : c \in PaceColumns}

\* Texts of the Day column.
DayTexts == {"Jan 1", " Jan  2", "Jan 3", "Total"}

\* Texts of the current-year and of the last-year column.
CurrentTexts == {"", "0", "8", "n/a"}
LastTexts == {"", "6", "n/a"}

PaceRowsOf(h) ==
    [day  : IF "Day" \in h THEN DayTexts ELSE {NoCell},
     cur  : IF "current" \in h THEN CurrentTexts ELSE {NoCell},
     last : IF "last" \in h THEN LastTexts ELSE {NoCell}]

\* Python's None.
None == "None"

\* A conversion either gives a value or fails with ValueError.
Value(v) == [ok |-> TRUE, val |-> v]
ValueError == [ok |-> FALSE, val |-> 0]

\* str(row.get("Day", "")).strip() followed by " ".join(day_str.split()).
NormalizedDay(day) ==
    CASE day = " Jan  2" -> "Jan 2"
      [] OTHER           -> day

\* datetime.strptime(f"{normalized} {today.year}", "%b %d %Y") as a day of the year.
Strptime(normalized) ==
    CASE normalized = "Jan 1" -> Value(1)
      [] normalized = "Jan 2" -> Value(2)
      [] normalized = "Jan 3" -> Value(3)
      [] normalized = "Jan 4" -> Value(4)
      [] normalized = "Jan 5" -> Value(5)
      [] normalized = "Jan 6" -> Value(6)
      [] normalized = "Jan 7" -> Value(7)
      [] normalized = "Jan 8" -> Value(8)
      [] OTHER                -> ValueError

\* int(text) on a cell text.
IntOf(text) ==
    CASE text = "0" -> Value(0)
      [] text = "6" -> Value(6)
      [] text = "8" -> Value(8)
      [] OTHER      -> ValueError

\* Truth value of a cell text: only the empty text is false.
Truthy(text) == text # ""

\* current_val == "" or current_val is None or current_val == 0, on a cell
\* text: a text is never None and never equal to the number 0.
WithoutCurrentYearData(cell) == cell = ""

\* The row is one the loop assigns to best_row.
Considered(h, row, now) ==
    /\ ~WithoutCurrentYearData(row.cur)
    /\ LET parsed == Strptime(NormalizedDay(IF "Day" \in h THEN row.day ELSE ""))
       IN parsed.ok /\ parsed.val <= now

\* best_row after the loop over df.iterrows(): the index of the last row the
\* loop assigned, 0 when it assigned none.
RECURSIVE BestRow(_, _, _, _, _)
BestRow(h, rows, now, i, best) ==
    IF i > Len(rows) THEN best
    ELSE BestRow(h, rows, now, i + 1, IF Considered(h, rows[i], now) THEN i ELSE best)

\* int(x) if x else 0
IntOrZero(x) == IF Truthy(x) THEN IntOf(x) ELSE Value(0)

\* The try block: both conversions, and both counts 0 when either fails.
Counts(current_count, last_year_count) ==
    LET c == IntOrZero(current_count)
        l == IntOrZero(last_year_count)
    IN IF c.ok /\ l.ok THEN <<c.val, l.val>> ELSE <<0, 0>>

\* calculate_booking_pace(df) with datetime.now() = now. The field row is the
\* index of today_row in the frame (0: none); it is not part of the returned tuple.
calculate_booking_pace(h, rows, now) ==
    IF "current" \notin h
    THEN [current |-> None, last_year |-> None, diff |-> None,
          error |-> "Column not found", row |-> 0]
    ELSE LET today_row == BestRow(h, rows, now, 1, 0)
         IN IF today_row = 0
            THEN [current |-> None, last_year |-> None, diff |-> None,
                  error |-> "No matching day found", row |-> 0]
            ELSE LET current_count == rows[today_row].cur
                     last_year_count == IF "last" \in h THEN rows[today_row].last ELSE ""
                     counts == Counts(current_count, last_year_count)
                 IN [current |-> counts[1], last_year |-> counts[2],
                     diff |-> counts[1] - counts[2], error |-> None, row |-> today_row]

InitPace ==
    /\ pc = "frame"
    /\ \E h \in PaceHeaders, n \in 0..MaxPaceRows :
          yoy \in [header : {h}, rows : [1..n -> PaceRowsOf(h)]]
    /\ today \in 1..MaxToday
    /\ pace = <<>>
    /\ chart = <<>>
    /\ days = 0
    /\ daily = <<>>
    /\ IdleDedup
    /\ IdleLead

CalculateBookingPace ==
    /\ pc = "frame"
    /\ pace' = calculate_booking_pace(yoy.header, yoy.rows, today)
    /\ pc' = "paced"
    /\ UNCHANGED <<yoy, today, chart, days, daily, dedupVars, leadVars>>

NextPace == CalculateBookingPace

SpecPace == InitPace /\ [][NextPace]_vars

(***************************************************************************)
(* create_booking_pace_chart_ytd on the Year Comparison frame. The current *)
(* year is 2026, whose Jan 1 is a Thursday. The series is the sorted       *)
(* chart_data the figure is drawn from.                                    *)
(***************************************************************************)

\* Largest number of data rows of the charted frame.
MaxChartRows == 3
\* today ranges over Jan 1 .. Jan MaxChartToday.
MaxChartToday == 7

ChartHeaders == {PaceColumns, PaceColumns \ {"current"}, PaceColumns \ {"last"}}

ChartDayTexts == {"Jan 1", "Jan 4", "Jan 5", "Jan 6", "Total"}
ChartCurrentTexts == {"", "8"}
ChartLastTexts == {"6", "n/a"}

ChartRowsOf(h) ==
    [day  : IF "Day" \in h THEN ChartDayTexts ELSE {NoCell},
     cur  : IF "current" \in h THEN ChartCurrentTexts ELSE {NoCell},
     last : IF "last" \in h THEN ChartLastTexts ELSE {NoCell}]

\* parsed.weekday() of a day of January 2026 (Monday is 0).
Weekday(day) == (day + 2) % 7

\* is_latest = (today.date() - parsed.date()).days <= 1
IsLatest(day, now) == now - day <= 1

\* is_first = parsed.month == 1 and parsed.day <= 3
IsFirst(day) == day <= 3

\* The row is appended to chart_data.
Charted(h, row, now) ==
    /\ ~WithoutCurrentYearData(row.cur)
    /\ LET parsed == Strptime(NormalizedDay(row.day))
       IN /\ parsed.ok
          /\ parsed.val <= now
          /\ Weekday(parsed.val) = 0 \/ IsFirst(parsed.val) \/ IsLatest(parsed.val, now)
    /\ IntOrZero(row.cur).ok
    /\ IntOrZero(IF "last" \in h THEN row.last ELSE "").ok

\* The entry appended for a row.
ChartEntry(h, row) ==
    [date |-> Strptime(NormalizedDay(row.day)).val,
     day_str |-> row.day,
     current |-> IntOrZero(row.cur).val,
     last_year |-> IntOrZero(IF "last" \in h THEN row.last ELSE "").val]

\* chart_data after the loop over df.iterrows().
ChartData(h, rows, now) ==
    LET kept == SelectSeq(rows, LAMBDA row : Charted(h, row, now))
    IN [k \in 1..Len(kept) |-> ChartEntry(h, kept[k])]

\* chart_data.sort(key=lambda x: x["date"]): a stable sort.
RECURSIVE InsertByDate(_, _)
InsertByDate(entry, sorted) ==
    IF sorted = <<>> THEN <<entry>>
    ELSE IF entry.date < Head(sorted).date THEN <<entry>> \o sorted
    ELSE <<Head(sorted)>> \o InsertByDate(entry, Tail(sorted))

RECURSIVE SortByDate(_)
SortByDate(entries) ==
    IF entries = <<>> THEN <<>>
    ELSE InsertByDate(entries[Len(entries)], SortByDate(SubSeq(entries, 1, Len(entries) - 1)))

\* create_booking_pace_chart_ytd(df) with datetime.now() = now: None, or the
\* series of the figure.
create_booking_pace_chart_ytd(h, rows, now) ==
    IF "current" \notin h THEN None
    ELSE IF ChartData(h, rows, now) = <<>> THEN None
    ELSE SortByDate(ChartData(h, rows, now))

InitChart ==
    /\ pc = "frame"
    /\ \E h \in ChartHeaders, n \in 0..MaxChartRows :
          yoy \in [header : {h}, rows : [1..n -> ChartRowsOf(h)]]
    /\ today \in 1..MaxChartToday
    /\ pace = <<>>
    /\ chart = <<>>
    /\ days = 0
    /\ daily = <<>>
    /\ IdleDedup
    /\ IdleLead

CreateBookingPaceChartYtd ==
    /\ pc = "frame"
    /\ chart' = create_booking_pace_chart_ytd(yoy.header, yoy.rows, today)
    /\ pc' = "charted"
    /\ UNCHANGED <<yoy, today, pace, days, daily, dedupVars, leadVars>>

NextChart == CreateBookingPaceChartYtd

SpecChart == InitChart /\ [][NextChart]_vars

(***************************************************************************)
(* create_booking_pace_chart(df, days) on the Year Comparison frame. The   *)
(* series is the sorted chart_data the figure is drawn from.               *)
(***************************************************************************)

\* Largest number of data rows of the frame charted by day.
MaxDailyRows == 3
\* today ranges over Jan 1 .. Jan MaxDailyToday.
MaxDailyToday == 4
\* days ranges over 1 .. MaxDays.
MaxDays == 2

DailyHeaders == {PaceColumns, PaceColumns \ {"last"}, PaceColumns \ {"current"}}

DailyDayTexts == {"Jan 1", "Jan 3", "Jan 4", "Total"}
DailyCurrentTexts == {"", "8"}
DailyLastTexts == {"", "6", "n/a"}

DailyRowsOf(h) ==
    [day  : IF "Day" \in h THEN DailyDayTexts ELSE {NoCell},
     cur  : IF "current" \in h THEN DailyCurrentTexts ELSE {NoCell},
     last : IF "last" \in h THEN DailyLastTexts ELSE {NoCell}]

\* The row is appended to chart_data: it has current-year data, its day
\* parses, 0 <= days_ago <= days, and both int() conversions succeed.
ChartedDaily(h, row, now, window) ==
    /\ ~WithoutCurrentYearData(row.cur)
    /\ LET parsed == Strptime(NormalizedDay(row.day))
       IN /\ parsed.ok
          /\ 0 <= now - parsed.val
          /\ now - parsed.val <= window
    /\ IntOrZero(row.cur).ok
    /\ IntOrZero(IF "last" \in h THEN row.last ELSE "").ok

\* chart_data after the loop over df.iterrows().
DailyData(h, rows, now, window) ==
    LET kept == SelectSeq(rows, LAMBDA row : ChartedDaily(h, row, now, window))
    IN [k \in 1..Len(kept) |-> ChartEntry(h, kept[k])]

\* create_booking_pace_chart(df, days) with datetime.now() = now: None, or
\* the series of the figure.
create_booking_pace_chart(h, rows, now, window) ==
    IF "current" \notin h THEN None
    ELSE IF DailyData(h, rows, now, window) = <<>> THEN None
    ELSE SortByDate(DailyData(h, rows, now, window))

InitDaily ==
    /\ pc = "frame"
    /\ \E h \in DailyHeaders, n \in 0..MaxDailyRows :
          yoy \in [header : {h}, rows : [1..n -> DailyRowsOf(h)]]
    /\ today \in 1..MaxDailyToday
    /\ days \in 1..MaxDays
    /\ pace = <<>>
    /\ chart = <<>>
    /\ daily = <<>>
    /\ IdleDedup
    /\ IdleLead

CreateBookingPaceChart ==
    /\ pc = "frame"
    /\ daily' = create_booking_pace_chart(yoy.header, yoy.rows, today, days)
    /\ pc' = "daily"
    /\ UNCHANGED <<yoy, today, pace, chart, days, dedupVars, leadVars>>

NextDaily == CreateBookingPaceChart

SpecDaily == InitDaily /\ [][NextDaily]_vars

(***************************************************************************)
(* Part 3: calculate_lead_metrics on the inquiry frame                     *)
(***************************************************************************)

\* Largest number of rows of the frame handed to calculate_lead_metrics.
MaxRecords == 2

\* Texts of the Event Date, Inquiry Date and Decision Date columns.
EventDateTexts == {"5/1/26", "5/1/25"}
InquiryDateTexts == {"1/5/26", " "}
DecisionDateTexts == {"2/1/26", ""}

\* Texts of the Resolution and of the Level of interaction column.
LeadResolutions == {"Booked", "Full", "We turn down", "Cold", "Canceled"}
InteractionLevels == {"Never acknowledged", "Only acknowledged"}

\* The columns calculate_lead_metrics reads.
LeadColumns ==
    {"Event Date", "Inquiry Date", "Decision Date", "Resolution",
     "Level of interaction", "Initial Contact", "Venue (if known)"}

\* The rows of the frame: one text per column read.
LeadRecords ==
    [event : EventDateTexts, inquiry : InquiryDateTexts, decision : DecisionDateTexts,
     res : LeadResolutions, level : InteractionLevels,
     source : {"Referral"}, venue : {"Oak Hall"}]

\* is_2026_event(event_date_str): the first format that parses decides.
is_2026_event(event_date_str) ==
    CASE event_date_str = "5/1/26" -> TRUE
      [] event_date_str = "5/1/25" -> FALSE
      [] OTHER                     -> FALSE

\* .astype(str).str.strip() on a date cell.
Strip(text) ==
    CASE text = " " -> ""
      [] OTHER      -> text

\* df[df["Event Date"].apply(is_2026_event)]
Events2026(frame) == SelectSeq(frame, LAMBDA r : is_2026_event(r.event))

\* The rows with both an Inquiry Date and a Decision Date.
WithDates(frame) ==
    SelectSeq(frame, LAMBDA r : Strip(r.inquiry) # "" /\ Strip(r.decision) # "")

\* resolution_counts.get(value, 0)
ResolutionCount(frame, value) == Len(SelectSeq(frame, LAMBDA r : r.res = value))

\* A float quotient num / den, kept as the fraction.
Ratio(num, den) == [num |-> num, den |-> den]

\* Mutant of ColdNeverAcknowledged: the Resolution == "Cold" test left out.
NeverAcknowledged(frame) ==
    Len(SelectSeq(frame, LAMBDA r : r.level = "Never acknowledged"))

\* cold_never_acknowledged
ColdNeverAcknowledged(frame) ==
    Len(SelectSeq(frame, LAMBDA r : r.res = "Cold" /\ r.level = "Never acknowledged"))

\* booked / denominator * 100 when the denominator is positive, else 0.
ConversionRate(booked, denominator) ==
    IF denominator > 0 THEN Ratio(booked * 100, denominator) ELSE Ratio(0, 1)

\* Mutant of AdjustedDenominator: every Cold row subtracted, whatever its level.
AdjustedDenominatorLessCold(df_with_dates) ==
    Len(df_with_dates) - ResolutionCount(df_with_dates, "Full")
        - ResolutionCount(df_with_dates, "We turn down")
        - ResolutionCount(df_with_dates, "Cold")

\* total_inquiries - full - we_turn_down - cold_never_acknowledged
AdjustedDenominator(df_with_dates) ==
    Len(df_with_dates) - ResolutionCount(df_with_dates, "Full")
        - ResolutionCount(df_with_dates, "We turn down")
        - ColdNeverAcknowledged(df_with_dates)

\* pd.to_datetime(text, errors="coerce") on a date cell, as a day number
\* (1 is 1/1/26); NaT for a text that is no date.
NaTDate == [ok |-> FALSE, val |-> 0]

ToDatetime(text) ==
    CASE text = "1/1/26" -> Value(1)
      [] text = "1/5/26" -> Value(5)
      [] text = "1/6/26" -> Value(6)
      [] text = "1/8/26" -> Value(8)
      [] text = "2/1/26" -> Value(32)
      [] text = "5/1/26" -> Value(121)
      [] text = "6/1/26" -> Value(152)
      [] text = "5/1/25" -> Value(-244)
      [] OTHER           -> NaTDate

\* (event_date - inquiry_date).days, when both dates parse.
LeadTimeDays(r) ==
    LET event_date == ToDatetime(r.event)
        inquiry_date == ToDatetime(r.inquiry)
    IN IF event_date.ok /\ inquiry_date.ok
       THEN Value(event_date.val - inquiry_date.val) ELSE NaTDate

\* (decision_date - inquiry_date).days, when both dates parse.
DaysToDecision(r) ==
    LET decision_date == ToDatetime(r.decision)
        inquiry_date == ToDatetime(r.inquiry)
    IN IF decision_date.ok /\ inquiry_date.ok
       THEN Value(decision_date.val - inquiry_date.val) ELSE NaTDate

\* Mutant of LeadTimesOf: the lead_time_days >= 0 test left out.
LeadTimesOfAnySign(frame, resolution) ==
    LET rows == SelectSeq(frame, LAMBDA r : r.res = resolution /\ LeadTimeDays(r).ok)
    IN [k \in 1..Len(rows) |-> LeadTimeDays(rows[k]).val]

\* lead_times_by_resolution[resolution]: the lead times appended for the
\* rows of that resolution, in frame order (negative ones are not appended).
LeadTimesOf(frame, resolution) ==
    LET rows == SelectSeq(frame, LAMBDA r : /\ r.res = resolution
                                            /\ LeadTimeDays(r).ok
                                            /\ LeadTimeDays(r).val >= 0)
    IN [k \in 1..Len(rows) |-> LeadTimeDays(rows[k]).val]

\* days_to_decision_by_resolution[resolution]
DaysToDecisionOf(frame, resolution) ==
    LET rows == SelectSeq(frame, LAMBDA r : /\ r.res = resolution
                                            /\ DaysToDecision(r).ok
                                            /\ DaysToDecision(r).val >= 0)
    IN [k \in 1..Len(rows) |-> DaysToDecision(rows[k]).val]

\* sum(times)
RECURSIVE Sum(_)
Sum(times) == IF times = <<>> THEN 0 ELSE Head(times) + Sum(Tail(times))

\* sorted(times), by insertion.
RECURSIVE Insert(_, _)
Insert(x, sorted) ==
    IF sorted = <<>> THEN <<x>>
    ELSE IF x <= Head(sorted) THEN <<x>> \o sorted
    ELSE <<Head(sorted)>> \o Insert(x, Tail(sorted))

RECURSIVE Sorted(_)
Sorted(times) == IF times = <<>> THEN <<>> ELSE Insert(Head(times), Sorted(Tail(times)))

\* Mutant of MedianDays: the element below the middle, sorted_times[(len - 1) // 2].
MedianDaysLower(times) == Sorted(times)[((Len(times) - 1) \div 2) + 1]

\* sorted_times[len(sorted_times) // 2], a 0-based index.
MedianDays(times) == Sorted(times)[(Len(times) \div 2) + 1]

\* The entry of metrics["lead_times"] / metrics["days_to_decision"] for a
\* non-empty list of times (months are days / 30.44).
TimeStatistics(times) ==
    [avg_days |-> Ratio(Sum(times), Len(times)),
     avg_months |-> Ratio(Sum(times) * 100, Len(times) * 3044),
     median_days |-> MedianDays(times),
     count |-> Len(times)]

\* metrics["lead_times"]: an entry for each resolution with a lead time.
LeadTimes(frame) ==
    [resolution \in {r.res : r \in {x \in Range(frame) : LeadTimesOf(frame, x.res) # <<>>}} |->
        TimeStatistics(LeadTimesOf(frame, resolution))]

\* metrics["days_to_decision"]
DaysToDecisionStatistics(frame) ==
    [resolution \in {r.res : r \in {x \in Range(frame) : DaysToDecisionOf(frame, x.res) # <<>>}} |->
        TimeStatistics(DaysToDecisionOf(frame, resolution))]

\* Mutant of AdjustedTotal: Cold / Never acknowledged rows subtracted as well.
AdjustedTotalLessCold(rows) ==
    Len(rows) - ResolutionCount(rows, "Full") - ResolutionCount(rows, "We turn down")
        - ColdNeverAcknowledged(rows)

\* row.sum() - full - turn_down of a group of rows.
AdjustedTotal(rows) ==
    Len(rows) - ResolutionCount(rows, "Full") - ResolutionCount(rows, "We turn down")

\* Mutant of Segment: the total is the group's row count, Full and We turn
\* down rows included.
SegmentOfAllRows(rows) ==
    [total |-> Len(rows),
     booked |-> ResolutionCount(rows, "Booked"),
     conversion_rate |-> Ratio(ResolutionCount(rows, "Booked") * 100, Len(rows))]

\* The entry of by_source / by_interaction for a group of rows.
Segment(rows) ==
    [total |-> AdjustedTotal(rows),
     booked |-> ResolutionCount(rows, "Booked"),
     conversion_rate |-> Ratio(ResolutionCount(rows, "Booked") * 100, AdjustedTotal(rows))]

\* metrics["by_source"]: the groups of Initial Contact with adjusted_total > 0.
BySource(frame) ==
    [source \in {r.source : r \in {x \in Range(frame) :
                     AdjustedTotal(SelectSeq(frame, LAMBDA y : y.source = x.source)) > 0}} |->
        Segment(SelectSeq(frame, LAMBDA y : y.source = source))]

\* metrics["by_interaction"]: the groups of Level of interaction with adjusted_total > 0.
ByInteraction(frame) ==
    [level \in {r.level : r \in {x \in Range(frame) :
                    AdjustedTotal(SelectSeq(frame, LAMBDA y : y.level = x.level)) > 0}} |->
        Segment(SelectSeq(frame, LAMBDA y : y.level = level))]

\* str.contains("Allied Arts|AAG", case=False) on a venue text.
IsHouseVenue(venue) ==
    CASE venue = "Allied Arts Guild" -> TRUE
      [] venue = "AAG"               -> TRUE
      [] OTHER                       -> FALSE

\* str.lower().str.contains("never") on a Level of interaction text.
ContainsNever(level) ==
    CASE level = "Never acknowledged" -> TRUE
      [] OTHER                        -> FALSE

\* The rows counted in aag_house_bookings.
IsHouseBooking(r) == IsHouseVenue(r.venue) /\ r.res = "Booked" /\ ContainsNever(r.level)

\* missing_info[:10]
DiagnosticLimit == 10

\* The "Event Date - Venue" entries of the first DiagnosticLimit rows.
MissingDetails(h, rows) ==
    [k \in 1..(IF Len(rows) < DiagnosticLimit THEN Len(rows) ELSE DiagnosticLimit) |->
        <<rows[k].event, IF "Venue (if known)" \in h THEN rows[k].venue ELSE "?">>]

\* return {}
EmptyReport == [raised |-> FALSE, empty |-> TRUE]

\* df[column] on a frame without that column.
KeyError == [raised |-> TRUE]

\* calculate_lead_metrics(df) on the frame with header h.
calculate_lead_metrics(h, frame) ==
    IF "Event Date" \notin h THEN KeyError
    ELSE
    LET df_2026_events == Events2026(frame)
        df_with_dates == WithDates(df_2026_events)
        booked_2026 == SelectSeq(df_2026_events, LAMBDA r : r.res = "Booked")
        booked_missing_inquiry == SelectSeq(booked_2026, LAMBDA r : Strip(r.inquiry) = "")
        booked_missing_decision == SelectSeq(booked_2026, LAMBDA r : Strip(r.decision) = "")
    IN IF df_2026_events = <<>> THEN EmptyReport
       ELSE IF ~({"Inquiry Date", "Decision Date"} \subseteq h) THEN KeyError
       ELSE IF df_with_dates = <<>> THEN EmptyReport
       ELSE IF ~({"Resolution", "Level of interaction", "Initial Contact"} \subseteq h)
       THEN KeyError
       ELSE [raised |-> FALSE,
             empty |-> FALSE,
             total_2026_events |-> Len(df_2026_events),
             booked_missing_inquiry_date |-> Len(booked_missing_inquiry),
             booked_missing_decision_date |-> Len(booked_missing_decision),
             missing_inquiry_details |-> MissingDetails(h, booked_missing_inquiry),
             missing_decision_details |-> MissingDetails(h, booked_missing_decision),
             total_inquiries |-> Len(df_with_dates),
             booked |-> ResolutionCount(df_with_dates, "Booked"),
             didnt_book |-> ResolutionCount(df_with_dates, "Didn't Book"),
             full |-> ResolutionCount(df_with_dates, "Full"),
             cold |-> ResolutionCount(df_with_dates, "Cold"),
             we_turn_down |-> ResolutionCount(df_with_dates, "We turn down"),
             canceled |-> ResolutionCount(df_with_dates, "Canceled"),
             conversion_rate_simple |->
                 ConversionRate(ResolutionCount(df_with_dates, "Booked"), Len(df_with_dates)),
             conversion_rate |->
                 ConversionRate(ResolutionCount(df_with_dates, "Booked"),
                                AdjustedDenominator(df_with_dates)),
             cold_never_acknowledged |-> ColdNeverAcknowledged(df_with_dates),
             lead_times |-> LeadTimes(df_with_dates),
             days_to_decision |-> DaysToDecisionStatistics(df_with_dates),
             by_source |-> BySource(df_with_dates),
             by_interaction |-> ByInteraction(df_with_dates),
             aag_house_bookings |->
                 IF "Venue (if known)" \in h
                 THEN Len(SelectSeq(df_2026_events, IsHouseBooking)) ELSE 0]

InitLead ==
    /\ pc = "records"
    /\ \E n \in 0..MaxRecords :
          records \in [header : {LeadColumns}, rows : [1..n -> LeadRecords]]
    /\ metrics = <<>>
    /\ IdleDedup
    /\ IdlePace

CalculateLeadMetrics ==
    /\ pc = "records"
    /\ metrics' = calculate_lead_metrics(records.header, records.rows)
    /\ pc' = "measured"
    /\ UNCHANGED <<records, dedupVars, paceVars>>

NextLead == CalculateLeadMetrics

SpecLead == InitLead /\ [][NextLead]_vars

\* Frames whose dates differ: an inquiry after the event, a decision before
\* the inquiry, an inquiry text that is no date.
MaxTimedRecords == 3

TimedInquiryTexts == {"1/5/26", "6/1/26", "tbd"}
TimedDecisionTexts == {"1/1/26", "1/6/26", "1/8/26", "2/1/26"}

TimedRecords ==
    [event : {"5/1/26"}, inquiry : TimedInquiryTexts, decision : TimedDecisionTexts,
     res : {"Booked", "Cold"}, level : {"Only acknowledged"},
     source : {"Referral"}, venue : {"Oak Hall"}]

InitLeadTimes ==
    /\ pc = "records"
    /\ \E n \in 0..MaxTimedRecords :
          records \in [header : {LeadColumns}, rows : [1..n -> TimedRecords]]
    /\ metrics = <<>>
    /\ IdleDedup
    /\ IdlePace

SpecLeadTimes == InitLeadTimes /\ [][NextLead]_vars

\* Frames with records of the house venue.
MaxHouseRecords == 2

VenueTexts == {"Oak Hall", "Allied Arts Guild"}

HouseRecords ==
    [event : {"5/1/26"}, inquiry : {"1/5/26"}, decision : DecisionDateTexts,
     res : {"Booked", "Cold"}, level : InteractionLevels,
     source : {"Referral"}, venue : VenueTexts]

InitLeadHouse ==
    /\ pc = "records"
    /\ \E n \in 0..MaxHouseRecords :
          records \in [header : {LeadColumns}, rows : [1..n -> HouseRecords]]
    /\ metrics = <<>>
    /\ IdleDedup
    /\ IdlePace

SpecLeadHouse == InitLeadHouse /\ [][NextLead]_vars

\* Frames whose records differ in Initial Contact and Level of interaction.
MaxSegmentRecords == 3

SourceTexts == {"Referral", "Website"}

SegmentRecords ==
    [event : {"5/1/26"}, inquiry : {"1/5/26"}, decision : {"2/1/26"},
     res : {"Booked", "Full", "We turn down", "Cold"}, level : InteractionLevels,
     source : SourceTexts, venue : {"Oak Hall"}]

InitLeadSegments ==
    /\ pc = "records"
    /\ \E n \in 0..MaxSegmentRecords :
          records \in [header : {LeadColumns}, rows : [1..n -> SegmentRecords]]
    /\ metrics = <<>>
    /\ IdleDedup
    /\ IdlePace

SpecLeadSegments == InitLeadSegments /\ [][NextLead]_vars

\* Frames of every header: the complete one, the ones lacking one column,
\* and pd.DataFrame(), the frame of an empty sheet, which has no column.
MaxColumnRecords == 2

RequiredColumns ==
    {"Event Date", "Inquiry Date", "Decision Date", "Resolution",
     "Level of interaction", "Initial Contact"}

LeadHeaders == {LeadColumns} \cup {LeadColumns \ {c} : c \in LeadColumns} \cup {{}}

\* The rows of a frame with header h: a column that is absent has no cell.
LeadRecordsOf(h) ==
    [event : IF "Event Date" \in h THEN EventDateTexts ELSE {NoCell},
     inquiry : IF "Inquiry Date" \in h THEN InquiryDateTexts ELSE {NoCell},
     decision : IF "Decision Date" \in h THEN DecisionDateTexts ELSE {NoCell},
     res : IF "Resolution" \in h THEN {"Booked", "Cold"} ELSE {NoCell},
     level : IF "Level of interaction" \in h THEN {"Never acknowledged"} ELSE {NoCell},
     source : IF "Initial Contact" \in h THEN {"Referral"} ELSE {NoCell},
     venue : IF "Venue (if known)" \in h THEN VenueTexts ELSE {NoCell}]

InitLeadColumns ==
    /\ pc = "records"
    /\ \E h \in LeadHeaders :
          \E n \in 0..(IF h = {} THEN 0 ELSE MaxColumnRecords) :
             records \in [header : {h}, rows : [1..n -> LeadRecordsOf(h)]]
    /\ metrics = <<>>
    /\ IdleDedup
    /\ IdlePace

SpecLeadColumns == InitLeadColumns /\ [][NextLead]_vars

(***************************************************************************)
(* Claims about the deduplication                                          *)
(***************************************************************************)

DedupColumns == {"Timestamp", "Event Date", "Venue (if known)"}

\* The deduplication has run on a sheet that has its three columns.
Deduplicated == pc # "sheet" /\ DedupColumns \subseteq columns

SheetKeys == {<<sheet[i].date, sheet[i].venue>> : i \in DOMAIN sheet}

\* The rows of the input with key k, and those of the returned frame.
RowsWithKey(k) == {i \in DOMAIN sheet : <<sheet[i].date, sheet[i].venue>> = k}
KeptWithKey(k) == df \cap RowsWithKey(k)

\* Rows whose Resolution reads Booked / Canceled whatever its case and padding.
BookedOf(k) == {i \in RowsWithKey(k) : sheet[i].res \in {"Booked", " BOOKED "}}
CanceledOf(k) == {i \in RowsWithKey(k) : sheet[i].res = "Canceled"}

\* A text that is no timestamp gives the row no timestamp: such a row is later
\* than nothing and nothing is later than it. A Canceled row is later than the
\* earliest Booked timestamp exactly when it is later than some Booked timestamp.
LaterCancellations(k) ==
    {i \in CanceledOf(k) :
        /\ sheet[i].ts \in 1..MaxTs
        /\ \E j \in BookedOf(k) : sheet[j].ts \in 1..MaxTs /\ sheet[i].ts > sheet[j].ts}

NetOf(k) ==
    LET n == Cardinality(BookedOf(k)) - Cardinality(LaterCancellations(k))
    IN IF n < 0 THEN 0 ELSE n

\* C1: for every (Event Date, Venue) group of the input, of any size, the
\* number of Booked rows of the group in the reconciled output is
\* max(0, b - c), b the group's Booked rows and c its Canceled rows with a
\* timestamp strictly later than the earliest Booked timestamp.
C1_NetBookingInvariant ==
    Deduplicated =>
        \A k \in SheetKeys : Cardinality(KeptWithKey(k) \cap BookedOf(k)) = NetOf(k)

\* Two Booked rows (one of them written " BOOKED "), one later cancellation, one Booked row kept.
C1_Witness ==
    /\ Deduplicated
    /\ \E k \in SheetKeys :
          /\ Cardinality(BookedOf(k)) = 2
          /\ \E i \in BookedOf(k) : sheet[i].res = " BOOKED "
          /\ Cardinality(LaterCancellations(k)) = 1
          /\ Cardinality(KeptWithKey(k) \cap BookedOf(k)) = 1

\* C2: the deduplication applied to its own output returns the same set of rows.
C2_DedupIdempotent == pc = "again" => df2 = df

\* The second pass ran on a frame that the first pass had shrunk and that
\* still holds a group of two rows.
C2_Witness ==
    /\ pc = "again"
    /\ DedupColumns \subseteq columns
    /\ Cardinality(df) < Len(sheet)
    /\ \E k \in SheetKeys : Cardinality(KeptWithKey(k)) = 2

\* C3: a group of more than one row with a Booked row and net 0 is reconciled
\* to exactly one row, a Canceled row than which no Canceled row of the group
\* is more recent.
C3_NetZeroKeepsNewestCanceled ==
    Deduplicated =>
        \A k \in SheetKeys :
            (Cardinality(RowsWithKey(k)) > 1 /\ BookedOf(k) # {} /\ NetOf(k) = 0) =>
                \E i \in CanceledOf(k) :
                    /\ KeptWithKey(k) = {i}
                    /\ \A j \in CanceledOf(k) : sheet[j].ts <= sheet[i].ts

\* Net 0 in a group whose newest row is not the Canceled one.
C3_Witness ==
    /\ Deduplicated
    /\ \E k \in SheetKeys :
          /\ Cardinality(RowsWithKey(k)) = 3 /\ BookedOf(k) # {} /\ NetOf(k) = 0
          /\ \E i \in CanceledOf(k), j \in RowsWithKey(k) \ CanceledOf(k) :
                KeptWithKey(k) = {i} /\ sheet[j].ts > sheet[i].ts

\* C4: a group of more than one row with net > 0 is reconciled to exactly net
\* rows, all Booked, none older than a discarded Booked row; every row that
\* is not Booked is discarded.
C4_NetPositiveKeepsNewestBooked ==
    Deduplicated =>
        \A k \in SheetKeys :
            (Cardinality(RowsWithKey(k)) > 1 /\ NetOf(k) > 0) =>
                /\ Cardinality(KeptWithKey(k)) = NetOf(k)
                /\ KeptWithKey(k) \subseteq BookedOf(k)
                /\ \A a \in KeptWithKey(k), d \in BookedOf(k) \ KeptWithKey(k) :
                       sheet[a].ts >= sheet[d].ts

\* Booked@1, Booked@2, Canceled@3 of one key: only Booked@2 is kept.
C4_Witness ==
    /\ Deduplicated
    /\ Len(sheet) = 3
    /\ \E i, j, c \in DOMAIN sheet :
          /\ sheet[i].date = sheet[j].date /\ sheet[j].date = sheet[c].date
          /\ sheet[i].venue = sheet[j].venue /\ sheet[j].venue = sheet[c].venue
          /\ sheet[i].res = "Booked" /\ sheet[i].ts = 1
          /\ sheet[j].res = "Booked" /\ sheet[j].ts = 2
          /\ sheet[c].res = "Canceled" /\ sheet[c].ts = 3
          /\ df = {j}

\* C5: a group of more than one row without a Booked row is reconciled to
\* exactly one row, and no row of the group has a later timestamp.
C5_NoBookedKeepsNewest ==
    Deduplicated =>
        \A k \in SheetKeys :
            (Cardinality(RowsWithKey(k)) > 1 /\ BookedOf(k) = {}) =>
                \E i \in RowsWithKey(k) :
                    /\ KeptWithKey(k) = {i}
                    /\ \A j \in RowsWithKey(k) : sheet[j].ts <= sheet[i].ts

\* A Canceled row older than a Cold row of the same key: the Cold row is kept.
C5_Witness ==
    /\ Deduplicated
    /\ \E k \in SheetKeys :
          /\ Cardinality(RowsWithKey(k)) > 1 /\ BookedOf(k) = {}
          /\ \E i, j \in RowsWithKey(k) :
                /\ sheet[i].res = "Cold" /\ sheet[j].res = "Canceled"
                /\ sheet[i].ts > sheet[j].ts
                /\ KeptWithKey(k) = {i}

(***************************************************************************)
(* Claims about calculate_booking_pace                                     *)
(***************************************************************************)

Paced == pc = "paced"

\* A comparison row was found.
Found == Paced /\ pace.error = None

\* The day of the year the day label of row i resolves to, 0 when it resolves to none.
ResolvedDay(i) ==
    LET parsed == Strptime(NormalizedDay(yoy.rows[i].day))
    IN IF "Day" \in yoy.header /\ parsed.ok THEN parsed.val ELSE 0

\* Row i resolves to a date on or before today.
NotInFuture(i) == ResolvedDay(i) \in 1..today

\* C6: the comparison row is, among the rows whose current-year cell is
\* populated and whose day is on or before today, the one with the latest
\* date, whatever the order of the rows in the table. Stated on the tables
\* that hold no "0" cell, where populated and non-empty are the same.
C6_SelectsLatestDate ==
    (Paced /\ "current" \in yoy.header /\ \A i \in DOMAIN yoy.rows : yoy.rows[i].cur # "0") =>
        LET candidates == {i \in DOMAIN yoy.rows : yoy.rows[i].cur # "" /\ NotInFuture(i)}
        IN candidates # {} =>
              /\ pace.row \in candidates
              /\ \A i \in candidates : ResolvedDay(i) <= ResolvedDay(pace.row)

\* C7: the comparison row never has an empty or zero current-year cell, the
\* text "0" included.
C7_NeverSelectsZeroCell ==
    (Found /\ pace.row # 0) => yoy.rows[pace.row].cur \notin {"", "0"}

\* The count a cell stands for: its number, 0 when it is empty, not a number or absent.
CountOfCell(text) ==
    CASE text = "6" -> 6
      [] text = "8" -> 8
      [] OTHER      -> 0

\* C8: on a found row, current and prior are the counts of the row's two
\* cells, each cell on its own (an empty or non-numeric cell is 0 and leaves
\* the other cell's count alone), and delta is their difference.
C8_CountsCellByCell ==
    (Found /\ pace.row # 0) =>
        /\ pace.current = CountOfCell(yoy.rows[pace.row].cur)
        /\ pace.last_year = CountOfCell(yoy.rows[pace.row].last)
        /\ pace.diff = pace.current - pace.last_year

\* C9: the result is not-found (three absent counts and a non-empty message)
\* exactly when there is no current-year column or no populated row (cell
\* neither empty nor zero) with a date on or before today; otherwise it is
\* three integers and no message.
C9_NotFoundExactlyWhenNothingQualifies ==
    Paced =>
        LET populated == {i \in DOMAIN yoy.rows :
                             yoy.rows[i].cur \notin {"", "0"} /\ NotInFuture(i)}
        IN IF "current" \notin yoy.header \/ populated = {}
           THEN /\ pace.error \notin {None, ""}
                /\ pace.current = None /\ pace.last_year = None /\ pace.diff = None
           ELSE /\ pace.error = None
                /\ pace.current \in Int /\ pace.last_year \in Int /\ pace.diff \in Int

(***************************************************************************)
(* Claims about calculate_lead_metrics                                     *)
(***************************************************************************)

\* calculate_lead_metrics returned a report that is not the empty one.
Reported == pc = "measured" /\ ~metrics.raised /\ ~metrics.empty

\* The fraction lies in [0, 100].
WithinPercent(q) == q.den > 0 /\ 0 <= q.num /\ q.num <= 100 * q.den

\* C10: in every non-empty report both conversion rates lie in [0, 100], each
\* is exactly 0 when its denominator is <= 0, and booked is at most
\* total - full - we_turn_down - cold_never_acknowledged.
C10_ConversionBounds ==
    Reported =>
        LET adjusted == metrics.total_inquiries - metrics.full - metrics.we_turn_down
                            - metrics.cold_never_acknowledged
        IN /\ WithinPercent(metrics.conversion_rate_simple)
           /\ WithinPercent(metrics.conversion_rate)
           /\ metrics.total_inquiries <= 0 => metrics.conversion_rate_simple.num = 0
           /\ adjusted <= 0 => metrics.conversion_rate.num = 0
           /\ metrics.booked <= adjusted

\* One Booked and one Cold / Never acknowledged record: the simple rate is 50,
\* the adjusted rate 100 over a denominator of 1.
C10_Witness ==
    /\ Reported
    /\ metrics.total_inquiries = 2
    /\ metrics.booked = 1
    /\ metrics.cold_never_acknowledged = 1
    /\ metrics.conversion_rate = [num |-> 100, den |-> 1]
    /\ metrics.conversion_rate_simple = [num |-> 100, den |-> 2]

\* The positions of the in-scope records that carry both dates.
Dated ==
    {k \in DOMAIN records.rows :
        /\ is_2026_event(records.rows[k].event)
        /\ Strip(records.rows[k].inquiry) # ""
        /\ Strip(records.rows[k].decision) # ""}

\* How many of those records have the resolution.
DatedWith(resolution) == Cardinality({k \in Dated : records.rows[k].res = resolution})

\* How many of them are Cold with the level exactly "Never acknowledged".
DatedColdNeverAcknowledged ==
    Cardinality({k \in Dated : /\ records.rows[k].res = "Cold"
                               /\ records.rows[k].level = "Never acknowledged"})

\* C11: the adjusted rate is booked / (total - full - we_turn_down -
\* cold_never_acknowledged) * 100 over the in-scope records with both dates,
\* where only Cold records whose level is exactly "Never acknowledged" are
\* subtracted; the simple rate is booked / total * 100.
C11_AdjustedRate ==
    Reported =>
        LET denominator == Cardinality(Dated) - DatedWith("Full")
                               - DatedWith("We turn down") - DatedColdNeverAcknowledged
        IN /\ metrics.cold_never_acknowledged = DatedColdNeverAcknowledged
           /\ denominator > 0 =>
                  metrics.conversion_rate = Ratio(DatedWith("Booked") * 100, denominator)
           /\ metrics.conversion_rate_simple =
                  Ratio(DatedWith("Booked") * 100, Cardinality(Dated))

\* A Booked record and a Cold / Only acknowledged record: the Cold record
\* stays in the denominator, so the adjusted rate is 100 / 2.
C11_Witness ==
    /\ Reported
    /\ \E k \in Dated : /\ records.rows[k].res = "Cold"
                        /\ records.rows[k].level = "Only acknowledged"
    /\ metrics.booked = 1
    /\ metrics.cold_never_acknowledged = 0
    /\ metrics.conversion_rate = [num |-> 100, den |-> 2]

\* The days to decision listed for a resolution, from the records of the frame.
DecisionDaysOf(resolution) ==
    DaysToDecisionOf(WithDates(Events2026(records.rows)), resolution)

\* The lead times listed for a resolution.
LeadDaysOf(resolution) ==
    LeadTimesOf(WithDates(Events2026(records.rows)), resolution)

\* v is the k-th smallest element of times (k counted from 1).
IsKthSmallest(v, k, times) ==
    /\ \E i \in DOMAIN times : times[i] = v
    /\ Cardinality({i \in DOMAIN times : times[i] < v}) < k
    /\ k <= Cardinality({i \in DOMAIN times : times[i] <= v})

\* v is the middle element of an odd-length list.
IsMiddleOfOdd(v, times) ==
    Len(times) % 2 = 1 => IsKthSmallest(v, (Len(times) + 1) \div 2, times)

\* C12 as stated: the reported median is the true middle element for an
\* odd-length list and the LOWER of the two central elements for an
\* even-length list.
C12_MedianLowerCentral ==
    Reported =>
        /\ \A res \in DOMAIN metrics.days_to_decision :
              LET times == DecisionDaysOf(res)
                  median == metrics.days_to_decision[res].median_days
              IN /\ IsMiddleOfOdd(median, times)
                 /\ Len(times) % 2 = 0 => IsKthSmallest(median, Len(times) \div 2, times)
        /\ \A res \in DOMAIN metrics.lead_times :
              LET times == LeadDaysOf(res)
                  median == metrics.lead_times[res].median_days
              IN /\ IsMiddleOfOdd(median, times)
                 /\ Len(times) % 2 = 0 => IsKthSmallest(median, Len(times) \div 2, times)

\* C12, amended: the reported median is the true middle element for an
\* odd-length list and the UPPER of the two central elements (the element at
\* 0-based index n / 2 of the sorted list) for an even-length list.
C12_MedianUpperCentral ==
    Reported =>
        /\ \A res \in DOMAIN metrics.days_to_decision :
              LET times == DecisionDaysOf(res)
                  median == metrics.days_to_decision[res].median_days
              IN /\ IsMiddleOfOdd(median, times)
                 /\ Len(times) % 2 = 0 =>
                        IsKthSmallest(median, (Len(times) \div 2) + 1, times)
        /\ \A res \in DOMAIN metrics.lead_times :
              LET times == LeadDaysOf(res)
                  median == metrics.lead_times[res].median_days
              IN /\ IsMiddleOfOdd(median, times)
                 /\ Len(times) % 2 = 0 =>
                        IsKthSmallest(median, (Len(times) \div 2) + 1, times)

\* Two Booked records decided 3 days and 1 day after the inquiry: the
\* reported median of the even-length list <<3, 1>> is 3.
C12_Witness ==
    /\ Reported
    /\ "Booked" \in DOMAIN metrics.days_to_decision
    /\ DecisionDaysOf("Booked") = <<3, 1>>
    /\ metrics.days_to_decision["Booked"].median_days = 3

\* The positions of the house-venue handoff records: the venue is the house
\* venue, the resolution Booked, the level Never acknowledged.
Handoffs ==
    {k \in DOMAIN records.rows :
        /\ records.rows[k].venue = "Allied Arts Guild"
        /\ records.rows[k].res = "Booked"
        /\ records.rows[k].level = "Never acknowledged"}

\* The frame with its handoff records taken out.
WithoutHandoffs ==
    SelectSeq(records.rows, LAMBDA r : ~(/\ r.venue = "Allied Arts Guild"
                                         /\ r.res = "Booked"
                                         /\ r.level = "Never acknowledged"))

\* C13: the in-scope handoff records are counted in aag_house_bookings, and
\* they contribute to no funnel count: the report of a frame has the same
\* total_inquiries, booked, rates and segments as the report of the frame
\* without its handoff records.
C13_HandoffsOutsideFunnel ==
    Reported =>
        LET base == calculate_lead_metrics(records.header, WithoutHandoffs)
        IN /\ metrics.aag_house_bookings =
                  Cardinality({k \in Handoffs : is_2026_event(records.rows[k].event)})
           /\ IF base.empty
              THEN metrics.total_inquiries = 0 /\ metrics.booked = 0
              ELSE /\ metrics.total_inquiries = base.total_inquiries
                   /\ metrics.booked = base.booked
                   /\ metrics.conversion_rate_simple = base.conversion_rate_simple
                   /\ metrics.conversion_rate = base.conversion_rate
                   /\ metrics.by_source = base.by_source
                   /\ metrics.by_interaction = base.by_interaction

\* The positions of the in-scope Booked records.
BookedInScope ==
    {k \in DOMAIN records.rows :
        is_2026_event(records.rows[k].event) /\ records.rows[k].res = "Booked"}

\* The in-scope Booked records without a Decision Date / an Inquiry Date.
LackingDecision == {k \in BookedInScope : Strip(records.rows[k].decision) = ""}
LackingInquiry == {k \in BookedInScope : Strip(records.rows[k].inquiry) = ""}

\* The report lists the record at position k, of the set lacking, in details
\* at the place its rank gives it.
Diagnosed(k, lacking, details) ==
    LET rank == Cardinality({j \in lacking : j < k}) + 1
    IN /\ rank \in DOMAIN details
       /\ details[rank] = <<records.rows[k].event, records.rows[k].venue>>

\* C14: for every input on which the function returns, each in-scope Booked
\* record lacking a Decision Date (an Inquiry Date) is outside total_inquiries
\* and booked and is listed in the missing-decision (missing-inquiry)
\* diagnostic whenever fewer than 10 such records precede it, also when no
\* in-scope record has both dates; each list has at most 10 entries.
C14_MissingDatesDiagnosed ==
    (pc = "measured" /\ ~metrics.raised) =>
        /\ ~metrics.empty =>
              /\ metrics.total_inquiries = Cardinality(Dated)
              /\ metrics.booked = DatedWith("Booked")
              /\ Len(metrics.missing_decision_details) <= DiagnosticLimit
              /\ Len(metrics.missing_inquiry_details) <= DiagnosticLimit
        /\ \A k \in LackingDecision :
              Cardinality({j \in LackingDecision : j < k}) < DiagnosticLimit =>
                  ~metrics.empty /\ Diagnosed(k, LackingDecision, metrics.missing_decision_details)
        /\ \A k \in LackingInquiry :
              Cardinality({j \in LackingInquiry : j < k}) < DiagnosticLimit =>
                  ~metrics.empty /\ Diagnosed(k, LackingInquiry, metrics.missing_inquiry_details)

\* The frame has a record in scope, as far as its Event Date column tells.
HasInScopeRecord ==
    /\ "Event Date" \in records.header
    /\ \E k \in DOMAIN records.rows : is_2026_event(records.rows[k].event)

\* C15: the function never raises; for a frame lacking a required column,
\* an entirely empty frame, or a frame without an in-scope record it returns
\* the empty report.
C15_EmptyReportInsteadOfRaising ==
    pc = "measured" =>
        /\ ~metrics.raised
        /\ (\/ ~(RequiredColumns \subseteq records.header)
            \/ records.rows = <<>>
            \/ ~HasInScopeRecord) => metrics.empty

\* The counted records of one Initial Contact / one Level of interaction.
OfSource(source) == {k \in Dated : records.rows[k].source = source}
OfLevel(level) == {k \in Dated : records.rows[k].level = level}

\* The records of the set with the resolution.
Resolved(positions, resolution) ==
    Cardinality({k \in positions : records.rows[k].res = resolution})

\* The segment's record count less its Full and We turn down records.
SegmentTotal(positions) ==
    Cardinality(positions) - Resolved(positions, "Full") - Resolved(positions, "We turn down")

\* The entry is the one the claim gives for the records of the segment.
SegmentEntryOf(entry, positions) ==
    /\ entry.total = SegmentTotal(positions)
    /\ entry.booked = Resolved(positions, "Booked")
    /\ entry.conversion_rate = Ratio(Resolved(positions, "Booked") * 100, SegmentTotal(positions))

\* C16: each by_source and by_interaction segment has as adjusted total its
\* record count less its Full and We turn down records (Cold / Never
\* acknowledged records are not subtracted), as rate booked / adjusted total
\* * 100, and is present exactly when the adjusted total is positive.
C16_SegmentAdjustedTotals ==
    Reported =>
        /\ \A source \in SourceTexts :
              /\ source \in DOMAIN metrics.by_source <=> SegmentTotal(OfSource(source)) > 0
              /\ source \in DOMAIN metrics.by_source =>
                     SegmentEntryOf(metrics.by_source[source], OfSource(source))
        /\ DOMAIN metrics.by_source \subseteq SourceTexts
        /\ \A level \in InteractionLevels :
              /\ level \in DOMAIN metrics.by_interaction <=> SegmentTotal(OfLevel(level)) > 0
              /\ level \in DOMAIN metrics.by_interaction =>
                     SegmentEntryOf(metrics.by_interaction[level], OfLevel(level))
        /\ DOMAIN metrics.by_interaction \subseteq InteractionLevels

\* Referral has a Booked and a Cold / Never acknowledged record, Website only
\* a Full one: Referral is reported with total 2 and rate 100 / 2, Website
\* is absent.
C16_Witness ==
    /\ Reported
    /\ DOMAIN metrics.by_source = {"Referral"}
    /\ metrics.by_source["Referral"] =
           [total |-> 2, booked |-> 1, conversion_rate |-> [num |-> 100, den |-> 2]]
    /\ \E k \in OfSource("Referral") : /\ records.rows[k].res = "Cold"
                                       /\ records.rows[k].level = "Never acknowledged"
    /\ \E k \in OfSource("Website") : records.rows[k].res = "Full"

\* The positions of the in-scope records whose Inquiry Date and Decision
\* Date are both dates.
ParseablyDated ==
    {k \in DOMAIN records.rows :
        /\ is_2026_event(records.rows[k].event)
        /\ ToDatetime(records.rows[k].inquiry).ok
        /\ ToDatetime(records.rows[k].decision).ok}

\* C17: only the in-scope records whose Inquiry Date and Decision Date are
\* both parseable dates are counted in total_inquiries and the resolution
\* counts; a record whose date cell holds a text that is no date is left out.
C17_OnlyParseableDatesCounted ==
    Reported =>
        /\ metrics.total_inquiries = Cardinality(ParseablyDated)
        /\ metrics.booked =
               Cardinality({k \in ParseablyDated : records.rows[k].res = "Booked"})
        /\ metrics.cold =
               Cardinality({k \in ParseablyDated : records.rows[k].res = "Cold"})

\* The day number of a date text of the frames of SpecLeadTimes.
DayOf(text) ==
    CASE text = "1/1/26" -> 1
      [] text = "1/5/26" -> 5
      [] text = "1/6/26" -> 6
      [] text = "1/8/26" -> 8
      [] text = "2/1/26" -> 32
      [] text = "5/1/26" -> 121
      [] text = "6/1/26" -> 152

IsDate(text) == text \in {"1/1/26", "1/5/26", "1/6/26", "1/8/26", "2/1/26", "5/1/26", "6/1/26"}

\* The counted records of a resolution whose event is not before the inquiry.
WithLeadTime(resolution) ==
    {k \in Dated : /\ records.rows[k].res = resolution
                   /\ IsDate(records.rows[k].event) /\ IsDate(records.rows[k].inquiry)
                   /\ DayOf(records.rows[k].event) >= DayOf(records.rows[k].inquiry)}

\* The counted records of a resolution whose decision is not before the inquiry.
WithDecisionDays(resolution) ==
    {k \in Dated : /\ records.rows[k].res = resolution
                   /\ IsDate(records.rows[k].decision) /\ IsDate(records.rows[k].inquiry)
                   /\ DayOf(records.rows[k].decision) >= DayOf(records.rows[k].inquiry)}

\* The count of a distribution entry, 0 when the resolution has no entry.
CountIn(distribution, resolution) ==
    IF resolution \in DOMAIN distribution THEN distribution[resolution].count ELSE 0

\* C20: a record with a negative lead time or negative days to decision is
\* left out of the distribution of its resolution but still counts in
\* total_inquiries and in its resolution count, so the count of each
\* distribution entry is at most the record count of the resolution.
C20_NegativeTimesLeftOut ==
    Reported =>
        /\ metrics.total_inquiries = Cardinality(Dated)
        /\ metrics.booked = DatedWith("Booked")
        /\ metrics.cold = DatedWith("Cold")
        /\ \A res \in {"Booked", "Cold"} :
              /\ CountIn(metrics.lead_times, res) = Cardinality(WithLeadTime(res))
              /\ CountIn(metrics.days_to_decision, res) = Cardinality(WithDecisionDays(res))
              /\ CountIn(metrics.lead_times, res) <= DatedWith(res)
              /\ CountIn(metrics.days_to_decision, res) <= DatedWith(res)
        /\ DOMAIN metrics.lead_times \subseteq {"Booked", "Cold"}
        /\ DOMAIN metrics.days_to_decision \subseteq {"Booked", "Cold"}

\* Two Booked records, one inquired after its event and one decided before
\* its inquiry: both are counted as booked, each distribution has one value.
C20_Witness ==
    /\ Reported
    /\ metrics.booked = 2
    /\ metrics.total_inquiries = 2
    /\ \E k \in Dated : records.rows[k].inquiry = "6/1/26"
    /\ \E k \in Dated : /\ records.rows[k].inquiry = "1/5/26"
                        /\ records.rows[k].decision = "1/1/26"
    /\ CountIn(metrics.lead_times, "Booked") = 1
    /\ CountIn(metrics.days_to_decision, "Booked") = 0

\* The days of the rows whose current-year cell holds a number and whose
\* last-year cell can be plotted.
PopulatedDays ==
    {Strptime(NormalizedDay(yoy.rows[k].day)).val :
        k \in {j \in DOMAIN yoy.rows :
                  /\ Strptime(NormalizedDay(yoy.rows[j].day)).ok
                  /\ yoy.rows[j].cur = "8"
                  /\ yoy.rows[j].last \in {"", "6"}}}

\* The dates of the series.
ChartDates == IF chart = None THEN {} ELSE {chart[k].date : k \in DOMAIN chart}

\* C18: the weekly year-to-date series always contains both endpoints: the
\* first populated January day available and the most recent populated day
\* on or before today, whatever their weekday and however far before today.
C18_EndpointsCharted ==
    (pc = "charted" /\ "current" \in yoy.header) =>
        LET upToToday == {d \in PopulatedDays : d <= today}
        IN upToToday # {} =>
              /\ \E d \in upToToday : (\A e \in upToToday : d <= e) /\ d \in ChartDates
              /\ \E d \in upToToday : (\A e \in upToToday : e <= d) /\ d \in ChartDates

\* The outcome class of a sheet row: Booked, Canceled or neither.
OutcomeClass(i) ==
    IF sheet[i].res \in {"Booked", " BOOKED "} THEN "booked"
    ELSE IF sheet[i].res = "Canceled" THEN "canceled"
    ELSE "other"

\* The rows whose Timestamp text is no timestamp.
Untimed == {i \in DOMAIN sheet : sheet[i].ts = NaT}

\* C19: rows whose timestamp does not parse take part in the deduplication
\* as the oldest rows: none is kept while a row of its group and outcome
\* class with a parseable timestamp is dropped; a group of one such row is
\* kept as it is; and a Booked row without a timestamp counts among the
\* group's bookings.
C19_UnparsedTimestampsOldest ==
    Deduplicated =>
        \A k \in SheetKeys :
            /\ \A i \in KeptWithKey(k) \cap Untimed :
                  \A j \in RowsWithKey(k) \ (df \cup Untimed) :
                      OutcomeClass(i) # OutcomeClass(j)
            /\ (Cardinality(RowsWithKey(k)) = 1 /\ RowsWithKey(k) \subseteq Untimed) =>
                   KeptWithKey(k) = RowsWithKey(k)
            /\ (BookedOf(k) \cap Untimed # {} /\ "Resolution" \in columns) =>
                   Cardinality(KeptWithKey(k) \cap BookedOf(k)) =
                       Max(0, Cardinality(BookedOf(k)) - Cardinality(LaterCancellations(k)))

\* One group holds two rows of the same outcome class, of which the one with
\* the timestamp is kept and the one without dropped. Another group is a
\* single Booked row without a timestamp, which is kept.
C19_Witness ==
    /\ Deduplicated
    /\ "Resolution" \in columns
    /\ \E k \in SheetKeys :
          \E i \in RowsWithKey(k) \cap Untimed, j \in RowsWithKey(k) \ Untimed :
              /\ OutcomeClass(i) = OutcomeClass(j)
              /\ j \in df
              /\ i \notin df
    /\ \E k \in SheetKeys :
          /\ Cardinality(RowsWithKey(k)) = 1
          /\ RowsWithKey(k) \subseteq Untimed \cap df
          /\ BookedOf(k) # {}

\* The populated rows of the frame whose day lies in the window of days
\* that ends today, in table order.
PopulatedInWindow ==
    SelectSeq(yoy.rows, LAMBDA row :
        /\ row.cur = "8"
        /\ row.day \in {"Jan 1", "Jan 3", "Jan 4"}
        /\ 0 <= today - Strptime(row.day).val
        /\ today - Strptime(row.day).val <= days)

\* The point the claim gives for a row: a last-year cell that is empty or
\* no number reads 0.
DailyPoint(row) ==
    [date |-> Strptime(row.day).val,
     day_str |-> row.day,
     current |-> 8,
     last_year |-> IF row.last = "6" THEN 6 ELSE 0]

\* The series, the empty one when no figure is drawn.
DailySeries == IF daily = None THEN <<>> ELSE daily

\* How often the point occurs in the series, and among the rows in the window.
TimesPlotted(point) == Cardinality({k \in DOMAIN DailySeries : DailySeries[k] = point})
TimesExpected(point) ==
    Cardinality({k \in DOMAIN PopulatedInWindow : DailyPoint(PopulatedInWindow[k]) = point})

\* C21: the daily series holds exactly the populated rows whose date d has
\* 0 <= today - d <= days, in ascending date order whatever the table
\* order, a last-year cell that is empty or no number being plotted as 0
\* and not costing the row its place.
C21_DailyWindowSeries ==
    (pc = "daily" /\ "current" \in yoy.header) =>
        /\ Len(DailySeries) = Len(PopulatedInWindow)
        /\ \A k \in DOMAIN PopulatedInWindow :
              TimesPlotted(DailyPoint(PopulatedInWindow[k])) =
                  TimesExpected(DailyPoint(PopulatedInWindow[k]))
        /\ \A k \in 1..(Len(DailySeries) - 1) :
              DailySeries[k].date <= DailySeries[k + 1].date

\* C22: the column names made from a header row are pairwise distinct,
\* whatever blanks, repeated names and names already ending in a numeric
\* suffix the row holds.
C22_UniqueHeadersDistinct ==
    pc = "named" =>
        /\ Len(unique_headers) = Len(headers)
        /\ \A i, j \in DOMAIN unique_headers :
              i # j => unique_headers[i] # unique_headers[j]

\* C23: the deduplication only selects rows. Every row of the returned frame
\* is a row of the sheet, every (Event Date, Venue) key of the sheet keeps at
\* least one row, _dedup_post is the number of returned rows and at most
\* _dedup_pre, the number of sheet rows; and when the Timestamp, Event Date
\* or Venue column is absent every row is returned and pre = post.
C23_DedupOnlySelects ==
    pc # "sheet" =>
        /\ df \subseteq DOMAIN sheet
        /\ \A k \in SheetKeys : KeptWithKey(k) # {}
        /\ dedupPost = Cardinality(df)
        /\ dedupPre = Len(sheet)
        /\ dedupPost <= dedupPre
        /\ ~(DedupColumns \subseteq columns) =>
               df = DOMAIN sheet /\ dedupPre = dedupPost

\* A Booked row and its later cancellation share a key and a third row has
\* another key: of the three rows two are returned, one for each key, the
\* Canceled row standing for the canceled booking.
C23_Witness ==
    /\ Deduplicated
    /\ dedupPre = 3
    /\ dedupPost = 2
    /\ Cardinality(SheetKeys) = 2
    /\ \E k \in SheetKeys :
          /\ Cardinality(BookedOf(k)) = 1
          /\ Cardinality(LaterCancellations(k)) = 1
          /\ KeptWithKey(k) \subseteq CanceledOf(k)
          /\ Cardinality(KeptWithKey(k)) = 1

\* The sums of 'booked' and of 'total' over the segments named in keys.
RECURSIVE SumBooked(_, _)
SumBooked(segments, keys) ==
    IF keys = {} THEN 0
    ELSE LET key == CHOOSE x \in keys : TRUE
         IN segments[key].booked + SumBooked(segments, keys \ {key})

RECURSIVE SumTotal(_, _)
SumTotal(segments, keys) ==
    IF keys = {} THEN 0
    ELSE LET key == CHOOSE x \in keys : TRUE
         IN segments[key].total + SumTotal(segments, keys \ {key})

\* C24: in a non-empty report the 'booked' of the by_source segments sum to
\* metrics.booked and their 'total' to total_inquiries - full -
\* we_turn_down; the same holds for the by_interaction segments.
C24_SegmentTotalsConserved ==
    Reported =>
        LET adjusted == metrics.total_inquiries - metrics.full - metrics.we_turn_down
        IN /\ SumBooked(metrics.by_source, DOMAIN metrics.by_source) = metrics.booked
           /\ SumTotal(metrics.by_source, DOMAIN metrics.by_source) = adjusted
           /\ SumBooked(metrics.by_interaction, DOMAIN metrics.by_interaction) = metrics.booked
           /\ SumTotal(metrics.by_interaction, DOMAIN metrics.by_interaction) = adjusted

\* Three records, one Booked, one Full, of two sources and two levels: both
\* sources and both levels are reported, and the totals sum to 3 - 1 = 2.
C24_Witness ==
    /\ Reported
    /\ metrics.total_inquiries = 3
    /\ metrics.booked = 1
    /\ metrics.full = 1
    /\ DOMAIN metrics.by_source = SourceTexts
    /\ DOMAIN metrics.by_interaction = InteractionLevels
    /\ SumTotal(metrics.by_source, SourceTexts) = 2

====
